---- MODULE Spec2Model ----
(***************************************************************************)
(* Model of the concurrent fetch pipeline of the banking tracker:          *)
(*   EnhancedRateScraper  (src/enhanced_rate_scraper.py)                   *)
(*   EnhancedFeesScraper  (src/enhanced_fees_scraper.py)                   *)
(*   EnhancedTermDepositsScraper                                           *)
(*       (src/term-deposits/scripts/enhanced_term_deposits_scraper.py)     *)
(*   LukePriorStyleTracker (src/luke_prior_realtime.py)                  *)
(* The first three submit one process_bank task per bank to a thread pool  *)
(* (collect_all_rates / collect_complete_data / run_enhanced_collection);  *)
(* the main thread extends the collection with each task's returned list   *)
(* as tasks complete.                                                      *)
(* The last submits fetch_bank_products_robust per brand and fetches the    *)
(* product details in the main thread (process_all_brands_parallel).       *)
(* The third-party servers are the environment: the response to every      *)
(* HTTP attempt is a nondeterministic choice.                              *)
(***************************************************************************)
EXTENDS Integers, Sequences, FiniteSets, TLC

\* ------------------------------------------------------------------ bounds
NumBanks == 2
MaxProducts == 1
PoolWorkers == 1
MaxRates == 2

\* ---------------------------------------------------------------- constants
\* collect_all_rates(self, max_workers: int = 10)
max_workers == 10

\* api_versions = ['3', '4', '2', '1'] (fetch_products_basic, fetch_product_details)
api_versions == <<"3", "4", "2", "1">>

Banks == 1..NumBanks

\* The scripts that share the process_bank orchestration.
Scrapers == {"rate", "fees", "term"}

\* What a listing endpoint can answer to one attempt:
\*   ok          200, JSON envelope with >= 1 product of the scraper's category
\*               (RESIDENTIAL_MORTGAGES, TERM_DEPOSITS)
\*   no_mortgage 200, JSON envelope, no product of that category
\*   malformed   200, body is not JSON: response.json() raises
\*   406         version not supported
\*   500         any other status
\*   timeout     session.get raises (timeout, connection reset)
ListingResponses == {"ok", "no_mortgage", "malformed", "406", "500", "timeout"}

\* What a detail endpoint can answer to one attempt:
\*   ok           200, data object with a features list and rates
\*                (lendingRates, depositRates)
\*   no_rates     200, data object with a features list, the rates empty
\*   bad_features 200, data object whose "features" is null
\*   no_data      200, envelope whose "data" is empty
\*   404          product not found
\*   406 / timeout as above
DetailResponses ==
    {"ok", "no_rates", "bad_features", "no_data", "404", "406", "timeout"}

\* Number of lending rates of an "ok" detail payload.
RatesOf(r) == IF r = "ok" THEN 1 ELSE 0

VARIABLES
    scraper,        \* which script runs: "rate" | "fees" | "term" | "luke"
    banks_to_process, \* BANKS_FROM_CDR_REGISTER: the banks submitted to the pool
    history,        \* TRUE: every HTTP attempt is recorded in attempts/dattempts
    workers,        \* ThreadPoolExecutor(max_workers=...): size of the pool
    product,        \* the raw product handed to the normalising functions
    result,         \* the function applied to it and what it returned
    catalog,        \* per bank: what its listing endpoint serves, as the number
                    \* of entries that match the category filter and of others
    pc,             \* per bank: position of its task, then of its collection
    ver,            \* per bank: index into api_versions of the listing attempt
    basic_products, \* per bank: number of products fetch_products_basic returned
    pidx,           \* per bank: index of the product being processed
    dver,           \* per bank: index into api_versions of the detail attempt
    detail_calls,   \* per bank: number of detail HTTP calls recorded
    records,        \* per bank: process_bank's local list `records`
    err,            \* per bank: the message of the task's failure, NoError if none
    tmp,            \* per bank: counter value loaded by the running `+= 1`
    attempts,       \* per bank: <<version, response>> of every listing attempt
    dattempts,      \* per bank: <<version, response>> of the detail attempts
                    \*           for the current product
    success_count,  \* self.success_count
    error_count,    \* self.error_count
    errors,         \* self.errors: bank -> message
    rate_records,   \* self.rate_records (all_products in luke_prior_realtime)
    main_pc         \* main thread: "collecting" | "done"

vars == <<scraper, banks_to_process, history, workers, catalog, product, result, pc, ver, basic_products,
          pidx, dver, detail_calls, records, err, tmp, attempts, dattempts,
          success_count, error_count, errors, rate_records, main_pc>>

config_vars == <<scraper, banks_to_process, history, workers, catalog, product>>

local_vars == <<ver, basic_products, pidx, dver, detail_calls, records, err, tmp,
                attempts, dattempts>>
shared_vars == <<success_count, error_count, errors>>

NoError == "none"

\* ------------------------------------------------- fetch_products_basic
\* ListingBranch with 406 handled as a final answer.
ListingBranch406Terminal(r) ==
    IF r = "ok" THEN "return" ELSE IF r = "406" THEN "break" ELSE "next"

\* ListingBranch with the except clause leaving the loop.
ListingBranchTimeoutTerminal(r) ==
    IF r = "ok" THEN "return" ELSE IF r = "timeout" THEN "break" ELSE "next"

\* What one loop iteration does with the response: "return" the filtered
\* products, or go on to the "next" version (continue, or falling out of the
\* if/elif chain, or the except clause).
ListingBranch(r) ==
    CASE r = "ok"          -> "return"
      [] r = "no_mortgage" -> "next"    \* `if mortgage_products:` is false
      [] r = "406"         -> "next"    \* continue  # Try next version
      [] r = "500"         -> "next"    \* warning, continue
      [] r = "malformed"   -> "next"    \* except Exception: continue
      [] r = "timeout"     -> "next"    \* except Exception: continue

\* ------------------------------------------------- fetch_product_details
DetailBranch(r) ==
    CASE r = "ok"           -> "return"
      [] r = "no_rates"     -> "return"
      [] r = "bad_features" -> "return"  \* `if product_detail:` is true
      [] r = "no_data"      -> "next"    \* `if product_detail:` is false
      [] r = "404"          -> "break"   \* Product not found, don't try other versions
      [] r = "406"          -> "next"    \* continue  # Try next version
      [] r = "timeout"      -> "next"    \* except Exception: continue

\* The value fetch_product_details returns: None, or the data object.
NoDetail == [kind |-> "none", rates |-> 0, features |-> "list"]
DetailPayload(r) ==
    [kind |-> "data", rates |-> RatesOf(r),
     features |-> IF r = "bad_features" THEN "null" ELSE "list"]

\* A record of the output: rate = 0 is the basic record (rate_type "UNKNOWN",
\* rate_value 0.0) built from the listing alone; rate = i is the record
\* create_rate_record built from the product's i-th lending rate.
Record(b, p, i) == [bank |-> b, product |-> p, rate |-> i]

RateRecords(b, p, k) == [i \in 1..k |-> Record(b, p, i)]

\* extract_rate_records of EnhancedRateScraper: the records of one product, or
\* the exception `for feature in features` raises when features is null.
ExtractRateRecords(b, p, detail) ==
    IF detail.kind = "data"
    THEN IF detail.features = "null"
         THEN [raised |-> TRUE, recs |-> <<>>]
         ELSE IF detail.rates > 0
              THEN [raised |-> FALSE, recs |-> RateRecords(b, p, detail.rates)]
              ELSE [raised |-> FALSE, recs |-> <<Record(b, p, 0)>>]
    ELSE [raised |-> FALSE, recs |-> <<Record(b, p, 0)>>]

\* The loop body of EnhancedFeesScraper.process_bank: records only under
\* `if detailed_product:` and `if lending_rates:`.
CompleteRecords(b, p, detail) ==
    IF detail.kind = "data"
    THEN IF detail.features = "null"
         THEN [raised |-> TRUE, recs |-> <<>>]
         ELSE IF detail.rates > 0
              THEN [raised |-> FALSE, recs |-> RateRecords(b, p, detail.rates)]
              ELSE [raised |-> FALSE, recs |-> <<>>]
    ELSE [raised |-> FALSE, recs |-> <<>>]

\* extract_rate_records of EnhancedTermDepositsScraper: the features are not
\* read; without detail or without depositRates the basic record is built.
TermExtractRateRecords(b, p, detail) ==
    IF detail.kind = "data" /\ detail.rates > 0
    THEN [raised |-> FALSE, recs |-> RateRecords(b, p, detail.rates)]
    ELSE [raised |-> FALSE, recs |-> <<Record(b, p, 0)>>]

ProductRecords(s, b, p, detail) ==
    CASE s = "rate" -> ExtractRateRecords(b, p, detail)
      [] s = "fees" -> CompleteRecords(b, p, detail)
      [] s = "term" -> TermExtractRateRecords(b, p, detail)

\* Extend that keeps a collection already filled.
ExtendIfEmpty(sink, bank_records) == IF sink = <<>> THEN bank_records ELSE sink

\* Extend written as an assignment.
ExtendAssigns(sink, bank_records) == bank_records

\* self.rate_records.extend(bank_records)
Extend(sink, bank_records) == sink \o bank_records

\* ------------------------------------------------------------------ Init
\* The pipeline runs do not look into the products.
NoProduct == [offset |-> "absent", text_offset |-> FALSE, rate |-> <<>>]
NoResult == [fn |-> "none"]

\* The listing content is not tracked: each answer carries its own products.
NoCatalog == [b \in Banks |-> [matched |-> 0, other |-> 0]]

InitCommon ==
    /\ pc = [b \in Banks |-> "queued"]
    /\ ver = [b \in Banks |-> 1]
    /\ basic_products = [b \in Banks |-> 0]
    /\ pidx = [b \in Banks |-> 0]
    /\ dver = [b \in Banks |-> 1]
    /\ detail_calls = [b \in Banks |-> 0]
    /\ records = [b \in Banks |-> <<>>]
    /\ err = [b \in Banks |-> NoError]
    /\ tmp = [b \in Banks |-> 0]
    /\ attempts = [b \in Banks |-> <<>>]
    /\ dattempts = [b \in Banks |-> <<>>]
    /\ success_count = 0
    /\ error_count = 0
    /\ errors = [b \in {} |-> NoError]
    /\ rate_records = <<>>
    /\ main_pc = "collecting"

\* EnhancedRateScraper.collect_all_rates over the whole registry.
Init ==
    /\ InitCommon
    /\ workers = max_workers
    /\ catalog = NoCatalog
    /\ product = NoProduct
    /\ result = NoResult
    /\ scraper = "rate"
    /\ banks_to_process = Banks
    /\ history = FALSE

\* Any of the three scrapers over a one-bank registry, every HTTP attempt recorded.
InitFetch ==
    /\ InitCommon
    /\ workers = max_workers
    /\ catalog = NoCatalog
    /\ product = NoProduct
    /\ result = NoResult
    /\ scraper \in Scrapers
    /\ banks_to_process = {1}
    /\ history = TRUE

\* ------------------------------------------------------------- process_bank
Running ==
    {b \in banks_to_process :
       pc[b] \notin {"queued", "returned", "raised", "converting", "collected"}}

\* The executor hands the task to a free worker thread.
Start(b) ==
    /\ pc[b] = "queued"
    /\ Cardinality(Running) < workers
    /\ pc' = [pc EXCEPT ![b] = "listing"]
    /\ UNCHANGED <<config_vars, result, local_vars, shared_vars,
                   rate_records, main_pc>>

\* process_bank once fetch_products_basic returned n products. Rate and fees
\* scrapers:
\*   if not basic_products: self.error_count += 1; self.errors[...] = ...; return
\* term-deposit scraper:
\*   if not basic_products: return records
\* otherwise the product loop starts.
AfterListing(s, n) ==
    IF n = 0
    THEN IF s = "term" THEN [pc |-> "returned", err |-> NoError]
                       ELSE [pc |-> "err_load", err |-> "No mortgage products found"]
    ELSE [pc |-> "detail", err |-> NoError]

\* process_bank after the product loop. Rate and fees scrapers: `if records:`
\* counts a success, else an error ("No rate records extracted" / "No complete
\* records extracted"); the term-deposit scraper counts a success.
AfterLoop(s, recs) ==
    IF s = "term" \/ recs # <<>>
    THEN [pc |-> "succ_load", err |-> NoError]
    ELSE [pc |-> "err_load", err |-> "No records extracted"]

\* One iteration of fetch_products_basic's loop; when the function returns
\* (the filtered products, or [] once the versions are exhausted) process_bank
\* goes on with AfterListing.
ListAttempt(b) ==
    /\ scraper \in Scrapers
    /\ pc[b] = "listing"
    /\ \E r \in ListingResponses, n \in 1..MaxProducts :
         /\ attempts' = [attempts EXCEPT ![b] =
                           IF history THEN Append(@, <<api_versions[ver[b]], r>>) ELSE @]
         /\ IF ListingBranch(r) = "next" /\ ver[b] < Len(api_versions)
            THEN /\ ver' = [ver EXCEPT ![b] = @ + 1]
                 /\ UNCHANGED <<basic_products, pidx, pc, err>>
            ELSE LET returned == IF ListingBranch(r) = "return" THEN n ELSE 0
                     after == AfterListing(scraper, returned)
                 IN  /\ basic_products' = [basic_products EXCEPT ![b] = returned]
                     /\ pidx' = [pidx EXCEPT ![b] = IF after.pc = "detail" THEN 1 ELSE 0]
                     /\ pc' = [pc EXCEPT ![b] = after.pc]
                     /\ err' = [err EXCEPT ![b] = after.err]
                     /\ ver' = [ver EXCEPT ![b] = 1]
    /\ UNCHANGED <<config_vars, result, dver, detail_calls, records,
                   tmp, dattempts, shared_vars, rate_records, main_pc>>

\* process_bank after fetch_product_details returned `detail` for product
\* pidx[b]: the product's records are appended, then the next product, or
\* AfterLoop, or the except clause. `logged` is the attempt history with this
\* attempt added.
FinishProduct(b, detail, logged) ==
    LET res == ProductRecords(scraper, b, pidx[b], detail)
        recs == records[b] \o res.recs
    IN  IF res.raised
        THEN /\ err' = [err EXCEPT ![b] = "exception"]
             /\ pc' = [pc EXCEPT ![b] = "err_load"]
             /\ dattempts' = logged
             /\ dver' = [dver EXCEPT ![b] = 1]
             /\ UNCHANGED <<records, pidx>>
        ELSE /\ records' = [records EXCEPT ![b] = recs]
             /\ IF pidx[b] < basic_products[b]
                THEN /\ pidx' = [pidx EXCEPT ![b] = @ + 1]
                     /\ dver' = [dver EXCEPT ![b] = 1]
                     /\ dattempts' = [dattempts EXCEPT ![b] = <<>>]
                     /\ UNCHANGED <<pc, err>>
                ELSE /\ pc' = [pc EXCEPT ![b] = AfterLoop(scraper, recs).pc]
                     /\ err' = [err EXCEPT ![b] = AfterLoop(scraper, recs).err]
                     /\ dattempts' = logged
                     /\ dver' = [dver EXCEPT ![b] = 1]
                     /\ UNCHANGED pidx

\* One iteration of fetch_product_details' loop for product pidx[b].
DetailAttempt(b) ==
    /\ pc[b] = "detail"
    /\ \E r \in DetailResponses :
         /\ detail_calls' = [detail_calls EXCEPT ![b] = IF history THEN @ + 1 ELSE @]
         /\ LET logged == [dattempts EXCEPT ![b] =
                             IF history THEN Append(@, <<api_versions[dver[b]], r>>) ELSE @]
            IN  IF DetailBranch(r) = "return"
                THEN FinishProduct(b, DetailPayload(r), logged)
                ELSE IF DetailBranch(r) = "next" /\ dver[b] < Len(api_versions)
                     THEN /\ dver' = [dver EXCEPT ![b] = @ + 1]
                          /\ dattempts' = logged
                          /\ UNCHANGED <<records, pidx, pc, err>>
                     ELSE FinishProduct(b, NoDetail, logged)
    /\ UNCHANGED <<config_vars, result, ver, basic_products, tmp,
                   attempts, shared_vars, rate_records, main_pc>>

\* `self.success_count += 1` / `self.error_count += 1`: the attribute is
\* loaded, incremented and stored back by separate bytecodes; another thread
\* may run between the load and the store.
CounterLoad(b) ==
    /\ pc[b] \in {"succ_load", "err_load"}
    /\ tmp' = [tmp EXCEPT ![b] = IF pc[b] = "succ_load" THEN success_count
                                                         ELSE error_count]
    /\ pc' = [pc EXCEPT ![b] = IF pc[b] = "succ_load" THEN "succ_store"
                                                       ELSE "err_store"]
    /\ UNCHANGED <<config_vars, result, ver, basic_products, pidx,
                   dver, detail_calls, records, err, attempts, dattempts,
                   shared_vars, rate_records, main_pc>>

\* The store of the incremented value; on the error paths
\* `self.errors[bank_name] = ...` follows; then process_bank returns records.
CounterStore(b) ==
    /\ pc[b] \in {"succ_store", "err_store"}
    /\ IF pc[b] = "succ_store"
       THEN /\ success_count' = tmp[b] + 1
            /\ UNCHANGED <<error_count, errors>>
       ELSE /\ error_count' = tmp[b] + 1
            /\ errors' = [x \in DOMAIN errors \cup {b} |->
                            IF x = b THEN err[b] ELSE errors[x]]
            /\ UNCHANGED success_count
    /\ tmp' = [tmp EXCEPT ![b] = 0]
    /\ pc' = [pc EXCEPT ![b] = "returned"]
    /\ UNCHANGED <<config_vars, result, ver, basic_products, pidx,
                   dver, detail_calls, records, err, attempts, dattempts,
                   rate_records, main_pc>>

\* --------------------------------------------------------- collect_all_rates
\* One iteration of `for future in as_completed(futures)` in the main thread:
\* bank_records = future.result(); self.rate_records.extend(bank_records).
Collect(b) ==
    /\ scraper \in Scrapers
    /\ main_pc = "collecting"
    /\ pc[b] = "returned"
    /\ rate_records' = Extend(rate_records, records[b])
    /\ pc' = [pc EXCEPT ![b] = "collected"]
    /\ UNCHANGED <<config_vars, result, local_vars, shared_vars,
                   main_pc>>

\* Every future was collected: the pool is shut down and the totals are logged.
Finish ==
    /\ main_pc = "collecting"
    /\ \A b \in banks_to_process : pc[b] = "collected"
    /\ main_pc' = "done"
    /\ UNCHANGED <<config_vars, result, pc, local_vars, shared_vars,
                   rate_records>>

Next ==
    \/ \E b \in banks_to_process : Start(b)
    \/ \E b \in banks_to_process : ListAttempt(b)
    \/ \E b \in banks_to_process : DetailAttempt(b)
    \/ \E b \in banks_to_process : CounterLoad(b)
    \/ \E b \in banks_to_process : CounterStore(b)
    \/ \E b \in banks_to_process : Collect(b)
    \/ Finish

Spec == Init /\ [][Next]_vars

SpecFetch == InitFetch /\ [][Next]_vars

\* ============================================== luke_prior_realtime.py
\* fetch_bank_products_robust: attempts = [x-v 3, x-v 2, x-v 1, no header,
\* /v3/ url with x-v 3, /v2/ url with x-v 2]
luke_attempts == <<"3", "2", "1", "", "v3/3", "v2/2">>

\* fetch_detailed_product_data: for version in ['3', '2', '1', '']
luke_detail_versions == <<"3", "2", "1", "">>

\* What the listing endpoint can answer to one attempt:
\*   ok           200, products with >= 1 RESIDENTIAL/MORTGAGE/HOME product
\*   no_mortgage  200, products non-empty, none of them a mortgage
\*   no_products  200, JSON object without products
\*   406          any status other than 200
\*   timeout      session.get raises a RequestException
\*   malformed    200, body is not JSON: response.json() raises
\*   bad_envelope 200, JSON that is not an object holding a "data" object:
\*                data.get(...) raises AttributeError
LukeResponses ==
    {"ok", "no_mortgage", "no_products", "406", "timeout", "malformed", "bad_envelope"}

\* The exception classes an answer can raise. response.json() raises
\* requests.exceptions.JSONDecodeError (a RequestException) with requests >=
\* 2.27 and a plain ValueError before.
LukeRaises(r) ==
    CASE r = "timeout"      -> {"RequestException"}
      [] r = "malformed"    -> {"RequestException", "ValueError"}
      [] r = "bad_envelope" -> {"AttributeError"}
      [] OTHER              -> {}

\* CaughtBy with the outer handler as narrow as the inner one.
CaughtByOnlyRequestException(exc) ==
    IF exc = "RequestException" THEN "inner" ELSE "none"

\* The handler that catches exc in fetch_bank_products_robust: the loop's
\* `except requests.exceptions.RequestException: continue`, else the
\* function's `except Exception`.
CaughtBy(exc) ==
    IF exc = "RequestException" THEN "inner" ELSE "outer"

\* What one loop iteration does with an answer that raises nothing.
LukeBranch(r) ==
    CASE r = "ok"          -> "return"
      [] r = "no_mortgage" -> "return_empty"  \* `return []`, nothing recorded
      [] r = "no_products" -> "next"          \* `if products:` is false
      [] r = "406"         -> "next"          \* no branch for other statuses

\* self.errors[brand.brand_name] = error_msg
SetError(errs, b, msg) ==
    [x \in DOMAIN errs \cup {b} |-> IF x = b THEN msg ELSE errs[x]]

\* One iteration of fetch_bank_products_robust's loop, up to the function's
\* return: `step` is "return", "return_empty", "next", "outer" or "none".
LukeAttempt(b) ==
    /\ scraper = "luke"
    /\ pc[b] = "listing"
    /\ \E r \in LukeResponses, n \in 1..MaxProducts :
       \E step \in IF LukeRaises(r) = {}
                   THEN {LukeBranch(r)}
                   ELSE {IF CaughtBy(exc) = "inner" THEN "next" ELSE CaughtBy(exc) :
                            exc \in LukeRaises(r)} :
         /\ attempts' = [attempts EXCEPT ![b] =
                           IF history THEN Append(@, <<luke_attempts[ver[b]], r>>) ELSE @]
         /\ IF step = "next" /\ ver[b] < Len(luke_attempts)
            THEN /\ ver' = [ver EXCEPT ![b] = @ + 1]
                 /\ UNCHANGED <<basic_products, pc, errors>>
            ELSE /\ ver' = [ver EXCEPT ![b] = 1]
                 /\ basic_products' = [basic_products EXCEPT ![b] =
                                         IF step = "return" THEN n ELSE 0]
                 /\ pc' = [pc EXCEPT ![b] =
                             CASE step = "return" -> "succ_load"
                               [] step = "none"   -> "raised"
                               [] OTHER           -> "returned"]
                 /\ errors' =
                      CASE step = "next"  -> SetError(errors, b, "All API attempts failed")
                        [] step = "outer" -> SetError(errors, b, "exception")
                        [] OTHER          -> errors
    /\ UNCHANGED <<config_vars, result, pidx, dver, detail_calls,
                   records, err, tmp, dattempts, success_count, error_count,
                   rate_records, main_pc>>

\* What fetch_detailed_product_data's loop does with one answer:
\* 200 -> return response.json().get('data', {}); anything else, and any
\* exception (bare except), goes on to the next version.
LukeDetailResponses == {"ok", "no_rates", "404", "406", "timeout"}
LukeDetailBranch(r) == IF r \in {"ok", "no_rates"} THEN "return" ELSE "next"

\* process_all_brands_parallel, one future off as_completed: future.result();
\* with no product the brand is done; an exception out of the future is
\* recorded in self.errors.
LukeCollect(b) ==
    /\ scraper = "luke"
    /\ main_pc = "collecting"
    /\ pc[b] \in {"returned", "raised"}
    /\ \A o \in banks_to_process : pc[o] # "converting"
    /\ IF pc[b] = "raised"
       THEN /\ errors' = SetError(errors, b, "Error processing")
            /\ pc' = [pc EXCEPT ![b] = "collected"]
            /\ UNCHANGED pidx
       ELSE /\ pc' = [pc EXCEPT ![b] =
                        IF basic_products[b] > 0 THEN "converting" ELSE "collected"]
            /\ pidx' = [pidx EXCEPT ![b] = IF basic_products[b] > 0 THEN 1 ELSE 0]
            /\ UNCHANGED errors
    /\ UNCHANGED <<config_vars, result, ver, basic_products, dver,
                   detail_calls, records, err, tmp, attempts, dattempts,
                   success_count, error_count, rate_records, main_pc>>

\* One iteration of fetch_detailed_product_data's loop in the main thread;
\* when the function returns, convert_to_luke_format builds the product's
\* record (with the detail's rates, or from the listing alone) and
\* all_products.append adds it.
LukeDetailAttempt(b) ==
    /\ scraper = "luke"
    /\ main_pc = "collecting"
    /\ pc[b] = "converting"
    /\ \E r \in LukeDetailResponses :
         /\ detail_calls' = [detail_calls EXCEPT ![b] = IF history THEN @ + 1 ELSE @]
         /\ IF LukeDetailBranch(r) = "next" /\ dver[b] < Len(luke_detail_versions)
            THEN /\ dver' = [dver EXCEPT ![b] = @ + 1]
                 /\ dattempts' = [dattempts EXCEPT ![b] =
                      IF history THEN Append(@, <<luke_detail_versions[dver[b]], r>>) ELSE @]
                 /\ UNCHANGED <<pc, pidx, rate_records>>
            ELSE /\ rate_records' = Append(rate_records, Record(b, pidx[b], RatesOf(r)))
                 /\ dver' = [dver EXCEPT ![b] = 1]
                 /\ dattempts' = [dattempts EXCEPT ![b] = <<>>]
                 /\ IF pidx[b] < basic_products[b]
                    THEN /\ pidx' = [pidx EXCEPT ![b] = @ + 1]
                         /\ UNCHANGED pc
                    ELSE /\ pc' = [pc EXCEPT ![b] = "collected"]
                         /\ UNCHANGED pidx
    /\ UNCHANGED <<config_vars, result, ver, basic_products, records,
                   err, tmp, attempts, shared_vars, main_pc>>

\* LukePriorStyleTracker over a one-brand registry, every attempt recorded.
InitLuke ==
    /\ InitCommon
    /\ workers = max_workers
    /\ catalog = NoCatalog
    /\ product = NoProduct
    /\ result = NoResult
    /\ scraper = "luke"
    /\ banks_to_process = {1}
    /\ history = TRUE

NextLuke ==
    \/ \E b \in banks_to_process : Start(b)
    \/ \E b \in banks_to_process : LukeAttempt(b)
    \/ \E b \in banks_to_process : CounterLoad(b)
    \/ \E b \in banks_to_process : CounterStore(b)
    \/ \E b \in banks_to_process : LukeCollect(b)
    \/ \E b \in banks_to_process : LukeDetailAttempt(b)
    \/ Finish

SpecLuke == InitLuke /\ [][NextLuke]_vars

\* ========================================== enhanced_realtime_scraper.py
\* EnhancedRealTimeScraper.run_enhanced_pipeline: the banks one after the
\* other in the main thread; fetch_bank_products_enhanced, then
\* process_product_enhanced and all_products.append for each product returned.
\*   ok       200 (the listing is the bank's catalog)
\*   406      version not supported
\*   500      any other status
\*   timeout  session.get raises
RtResponses == {"ok", "406", "500", "timeout"}

\* The products fetch_bank_products_enhanced returns from the 200 answer to
\* x-v 3: those whose category or name matches.
FilteredProducts(cat) == cat.matched

\* The products it returns from the 200 answer to the retry without x-v:
\* `return products`, everything the listing holds.
FallbackProducts(cat) == cat.matched + cat.other

\* fetch_bank_products_enhanced returned n products: run_enhanced_pipeline
\* enters the product loop, or goes on to the next bank.
RtReturn(b, n, msg) ==
    /\ basic_products' = [basic_products EXCEPT ![b] = n]
    /\ pidx' = [pidx EXCEPT ![b] = IF n > 0 THEN 1 ELSE 0]
    /\ pc' = [pc EXCEPT ![b] = IF n > 0 THEN "converting" ELSE "collected"]
    /\ errors' = IF msg = NoError THEN errors ELSE SetError(errors, b, msg)

\* The request with x-v 3 of fetch_bank_products_enhanced.
RtListing(b) ==
    /\ scraper = "realtime"
    /\ main_pc = "collecting"
    /\ pc[b] = "queued"
    /\ \A o \in banks_to_process : o < b => pc[o] = "collected"
    /\ \E r \in RtResponses :
         CASE r = "ok"      -> RtReturn(b, FilteredProducts(catalog[b]), NoError)
           [] r = "406"     -> /\ pc' = [pc EXCEPT ![b] = "fallback"]
                               /\ UNCHANGED <<basic_products, pidx, errors>>
           [] r = "500"     -> RtReturn(b, 0, "HTTP 500")
           [] r = "timeout" -> RtReturn(b, 0, "exception")
    /\ UNCHANGED <<config_vars, result, ver, dver, detail_calls, records, err, tmp,
                   attempts, dattempts, success_count, error_count,
                   rate_records, main_pc>>

\* The retry without the version header after a 406.
RtFallback(b) ==
    /\ scraper = "realtime"
    /\ pc[b] = "fallback"
    /\ \E r \in RtResponses :
         CASE r = "ok"      -> RtReturn(b, FallbackProducts(catalog[b]), NoError)
           [] r = "406"     -> RtReturn(b, 0, "HTTP 406")
           [] r = "500"     -> RtReturn(b, 0, "HTTP 406")
           [] r = "timeout" -> RtReturn(b, 0, "exception")
    /\ UNCHANGED <<config_vars, result, ver, dver, detail_calls, records, err, tmp,
                   attempts, dattempts, success_count, error_count,
                   rate_records, main_pc>>

\* process_product_enhanced for product pidx[b] (fetch_detailed_product_enhanced
\* returns the data or {}), then all_products.append.
RtProcess(b) ==
    /\ scraper = "realtime"
    /\ pc[b] = "converting"
    /\ \E r \in LukeDetailResponses :
         rate_records' = Append(rate_records, Record(b, pidx[b], RatesOf(r)))
    /\ IF pidx[b] < basic_products[b]
       THEN /\ pidx' = [pidx EXCEPT ![b] = @ + 1]
            /\ UNCHANGED pc
       ELSE /\ pc' = [pc EXCEPT ![b] = "collected"]
            /\ UNCHANGED pidx
    /\ UNCHANGED <<config_vars, result, ver, basic_products, dver, detail_calls, records,
                   err, tmp, attempts, dattempts, shared_vars, main_pc>>

Catalogs == [matched : 0..MaxProducts, other : 0..MaxProducts]

InitRealtime ==
    /\ InitCommon
    /\ workers = 1
    /\ catalog \in [Banks -> Catalogs]
    /\ product = NoProduct
    /\ result = NoResult
    /\ scraper = "realtime"
    /\ banks_to_process = Banks
    /\ history = FALSE

NextRealtime ==
    \/ \E b \in banks_to_process : RtListing(b)
    \/ \E b \in banks_to_process : RtFallback(b)
    \/ \E b \in banks_to_process : RtProcess(b)
    \/ Finish

SpecRealtime == InitRealtime /\ [][NextRealtime]_vars

\* ===================================================== the pool under load
\* A pool smaller than the registry, so that banks queue for a worker.
InitPool ==
    /\ InitCommon
    /\ workers = PoolWorkers
    /\ catalog = NoCatalog
    /\ product = NoProduct
    /\ result = NoResult
    /\ scraper \in {"rate", "luke"}
    /\ banks_to_process = Banks
    /\ history = FALSE

NextPool ==
    \/ Next
    \/ \E b \in banks_to_process : LukeAttempt(b)
    \/ \E b \in banks_to_process : LukeCollect(b)
    \/ \E b \in banks_to_process : LukeDetailAttempt(b)

SpecPool == InitPool /\ [][NextPool]_vars

\* ================================================= the normalising functions
\* A raw rate entry (an element of lendingRates, or of the aggregated "rate"
\* list): type is lendingRateType, term is additionalValue (an ISO 8601
\* period), value is the number under "rate", purpose is the purpose field.
\* Values are in thousandths of the unit the source uses.
BadValue == 0 - 1         \* a value float() rejects, such as "N/A"
MissingValue == 0 - 2     \* the key is absent or null
TinyValue == 4            \* positive, and 0.00 when printed with two decimals
RawValues == {MissingValue, BadValue, 0, TinyValue, 5500, 6000}
RateKinds ==
    {[type |-> "VARIABLE", term |-> ""],
     [type |-> "FIXED", term |-> "P1Y"],
     [type |-> "FIXED", term |-> "P3Y"]}
RawPurposes == {"", "INVESTMENT", "OWNER_OCCUPIED"}
RateEntries ==
    {[type |-> k.type, term |-> k.term, value |-> v, purpose |-> u] :
       k \in RateKinds, v \in RawValues, u \in RawPurposes}

RateLists == UNION {[1..n -> RateEntries] : n \in 0..MaxRates}

\* A raw product: offset is the structured offset flag ("absent": no such
\* entry), text_offset tells whether name/description contain "offset".
RateInputs ==
    {[offset |-> "absent", text_offset |-> FALSE, rate |-> l] : l \in RateLists}
FeatureInputs ==
    {[offset |-> o, text_offset |-> t, rate |-> <<>>] :
       o \in {"absent", "true", "false"}, t \in BOOLEAN}

\* ---- enhanced_rate_scraper.py
\* parse_period_to_months on the terms above: int(years) * 12.
ParsePeriodToMonths(term) ==
    CASE term = "P1Y" -> 12
      [] term = "P3Y" -> 36
      [] OTHER        -> 0

NoRecord == [rate_type |-> "None"]

\* create_rate_record: float() of the value raises on a rejected value (and
\* on null), the except clause returns None; a missing key reads as 0.0.
CreateRateRecord(e) ==
    IF e.value = BadValue
    THEN NoRecord
    ELSE [rate_type |-> e.type,
          rate_value |-> IF e.value = MissingValue THEN 0 ELSE e.value,
          fixed_term_months |-> IF e.type = "FIXED" /\ e.term # ""
                                THEN ParsePeriodToMonths(e.term) ELSE 0,
          loan_purpose |-> IF e.purpose = "" THEN "Not Specified" ELSE e.purpose]

\* The loop of extract_rate_records over lendingRates:
\*   record = self.create_rate_record(...); if record: records.append(record)
RECURSIVE LendingRateRecords(_, _)
LendingRateRecords(lending_rates, n) ==
    IF n = 0 THEN <<>>
    ELSE LET record == CreateRateRecord(lending_rates[n])
             before == LendingRateRecords(lending_rates, n - 1)
         IN  IF record # NoRecord THEN Append(before, record) ELSE before

ApplyCreateRateRecord ==
    /\ scraper = "norm"
    /\ result = NoResult
    /\ product.rate # <<>>
    /\ result' = [fn |-> "create_rate_record",
                  out |-> LendingRateRecords(product.rate, Len(product.rate))]
    /\ UNCHANGED <<config_vars, pc, local_vars, shared_vars, rate_records, main_pc>>

\* ---- enhanced_realtime_scraper.py
\* The slot extract_rates_enhanced files an entry under.
RateSlot(e) ==
    CASE e.type = "VARIABLE"               -> "variable_rate"
      [] e.type = "FIXED" /\ e.term = "P1Y" -> "fixed_rate_1yr"
      [] e.type = "FIXED" /\ e.term = "P3Y" -> "fixed_rate_3yr"

\* rates[slot] = value
SetSlot(rates, slot, value) ==
    [k \in DOMAIN rates \cup {slot} |-> IF k = slot THEN value ELSE rates[k]]

\* rates.get(slot) where None is written 0 - 2
GetSlot(rates, slot) == IF slot \in DOMAIN rates THEN rates[slot] ELSE MissingValue

NoRates == [k \in {} |-> 0]

\* extract_rates_enhanced: every entry whose value is not None is converted
\* with float(value) * 100 and assigned to its slot; float() raises on a
\* rejected value.
RECURSIVE ExtractRatesEnhanced(_, _)
ExtractRatesEnhanced(lending_rates, n) ==
    IF n = 0 THEN [raised |-> FALSE, rates |-> NoRates]
    ELSE LET before == ExtractRatesEnhanced(lending_rates, n - 1)
             e == lending_rates[n]
         IN  IF before.raised \/ e.value = MissingValue THEN before
             ELSE IF e.value = BadValue THEN [raised |-> TRUE, rates |-> before.rates]
             ELSE [raised |-> FALSE,
                   rates |-> SetSlot(before.rates, RateSlot(e), e.value * 100)]

ApplyExtractRatesEnhanced ==
    /\ scraper = "norm"
    /\ result = NoResult
    /\ result' = [fn |-> "extract_rates_enhanced",
                  out |-> ExtractRatesEnhanced(product.rate, Len(product.rate))]
    /\ UNCHANGED <<config_vars, pc, local_vars, shared_vars, rate_records, main_pc>>

\* ---- monthly_mortgage_pipeline.py
\* extract_enhanced_features, the offset flag: the direct field when the key
\* exists (`product['offset'] is True`), then the keyword scan of name and
\* description, which sets the flag when it finds "offset".
ExtractEnhancedFeatures(p) ==
    LET direct == IF p.offset = "absent" THEN FALSE ELSE p.offset = "true"
    IN  IF p.text_offset THEN TRUE ELSE direct

ApplyExtractEnhancedFeatures ==
    /\ scraper = "norm"
    /\ result = NoResult
    /\ result' = [fn |-> "extract_enhanced_features",
                  out |-> ExtractEnhancedFeatures(product)]
    /\ UNCHANGED <<config_vars, pc, local_vars, shared_vars, rate_records, main_pc>>

\* The aggregated "rate" list carries the term as a period in months.
AggregatedPeriod(e) ==
    CASE e.term = "P1Y" -> 12
      [] e.term = "P3Y" -> 36
      [] OTHER          -> 0

\* The slot extract_enhanced_rates files an entry under.
MonthlySlot(e) ==
    CASE e.type = "VARIABLE"                          -> "variable"
      [] e.type = "FIXED" /\ AggregatedPeriod(e) = 12 -> "fixed_1yr"
      [] e.type = "FIXED" /\ AggregatedPeriod(e) = 36 -> "fixed_3yr"

\* extract_enhanced_rates over the aggregated list (a product text without a
\* percentage): `if rate_value and isinstance(rate_value, (int, float))`, then
\* the slot is assigned.
RECURSIVE ExtractEnhancedRates(_, _)
ExtractEnhancedRates(rate_list, n) ==
    IF n = 0 THEN NoRates
    ELSE LET before == ExtractEnhancedRates(rate_list, n - 1)
             e == rate_list[n]
         IN  IF e.value \in {MissingValue, BadValue, 0} THEN before
             ELSE SetSlot(before, MonthlySlot(e), e.value)

\* rates.get(a) or rates.get(b) or ...: the first slot of `order` that holds a
\* value that is neither None nor 0.
NoSelection == [slot |-> "none", rate |-> MissingValue]
RECURSIVE FirstAvailable(_, _, _)
FirstAvailable(rates, order, i) ==
    IF i > Len(order) THEN NoSelection
    ELSE IF GetSlot(rates, order[i]) \notin {MissingValue, 0}
         THEN [slot |-> order[i], rate |-> rates[order[i]]]
         ELSE FirstAvailable(rates, order, i + 1)

\* calculate_all_repayments:
\*   rate = rates.get('variable') or rates.get('fixed_3yr')
\*          or rates.get('fixed_2yr') or rates.get('fixed_1yr')
monthly_order == <<"variable", "fixed_3yr", "fixed_2yr", "fixed_1yr">>

ApplyCalculateAllRepayments ==
    /\ scraper = "norm"
    /\ result = NoResult
    /\ result' = [fn |-> "calculate_all_repayments",
                  out |-> FirstAvailable(
                            ExtractEnhancedRates(product.rate, Len(product.rate)),
                            monthly_order, 1)]
    /\ UNCHANGED <<config_vars, pc, local_vars, shared_vars, rate_records, main_pc>>

\* ---- comprehensive_cdr_scraper.py
\* f"{rate_value:.2f}%" : the value printed with two decimals, as the number
\* of hundredths it shows ("0.00%" is 0).
Format2(v) == (v + 5) \div 10

\* The slot extract_rates_comprehensive files an entry under.
ComprehensiveSlot(e) ==
    CASE e.type = "VARIABLE"                          -> "variable_rate"
      [] e.type = "FIXED" /\ AggregatedPeriod(e) = 12 -> "fixed_rate_1yr"
      [] e.type = "FIXED" /\ AggregatedPeriod(e) = 36 -> "fixed_rate_3yr"

\* extract_rates_comprehensive: `if rate_value and isinstance(rate_value,
\* (int, float))`, then the slot is assigned the printed string; the slots
\* left out hold ''.
RECURSIVE ExtractRatesComprehensive(_, _)
ExtractRatesComprehensive(rate_data, n) ==
    IF n = 0 THEN NoRates
    ELSE LET before == ExtractRatesComprehensive(rate_data, n - 1)
             e == rate_data[n]
         IN  IF e.value \in {MissingValue, BadValue, 0} THEN before
             ELSE SetSlot(before, ComprehensiveSlot(e), Format2(e.value))

\* rates.get(a) or rates.get(b) or ... over strings: the first slot of `order`
\* that holds a non-empty string.
RECURSIVE FirstNonEmpty(_, _, _)
FirstNonEmpty(rates, order, i) ==
    IF i > Len(order) THEN NoSelection
    ELSE IF order[i] \in DOMAIN rates
         THEN [slot |-> order[i], rate |-> rates[order[i]]]
         ELSE FirstNonEmpty(rates, order, i + 1)

comprehensive_order == <<"variable_rate", "fixed_rate_1yr", "fixed_rate_2yr">>

\* calculate_monthly_repayments: the selected string is parsed back
\* (float(rate_str.replace('%', '')) / 100); with monthly_rate > 0 the
\* repayments are amounts, else "Interest-free"; without a rate they stay ''.
CalculateMonthlyRepayments(rates) ==
    LET sel == FirstNonEmpty(rates, comprehensive_order, 1)
    IN  [selected |-> sel,
         repayment |-> IF sel = NoSelection THEN ""
                       ELSE IF sel.rate > 0 THEN "amount" ELSE "Interest-free"]

ApplyCalculateMonthlyRepayments ==
    /\ scraper = "norm"
    /\ result = NoResult
    /\ result' = [fn |-> "calculate_monthly_repayments",
                  out |-> CalculateMonthlyRepayments(
                            ExtractRatesComprehensive(product.rate, Len(product.rate)))]
    /\ UNCHANGED <<config_vars, pc, local_vars, shared_vars, rate_records, main_pc>>

\* ---- enhanced_realtime_scraper.py
\* process_product_enhanced: best_rate = rates.get('variable_rate') or
\* rates.get('fixed_rate_1yr') or ... ; calculate_monthly_repayment returns
\* None for a rate that is None or <= 0.
enhanced_order ==
    <<"variable_rate", "fixed_rate_1yr", "fixed_rate_2yr", "fixed_rate_3yr">>

CalculateMonthlyRepayment(rates) ==
    LET sel == FirstAvailable(rates, enhanced_order, 1)
    IN  [selected |-> sel,
         repayment |-> IF sel = NoSelection \/ sel.rate <= 0 THEN "" ELSE "amount"]

ApplyCalculateMonthlyRepayment ==
    /\ scraper = "norm"
    /\ result = NoResult
    /\ ~ExtractRatesEnhanced(product.rate, Len(product.rate)).raised
    /\ result' = [fn |-> "calculate_monthly_repayment",
                  out |-> CalculateMonthlyRepayment(
                            ExtractRatesEnhanced(product.rate, Len(product.rate)).rates)]
    /\ UNCHANGED <<config_vars, pc, local_vars, shared_vars, rate_records, main_pc>>

\* ---- loan purpose of a product
\* purposes = set(); `if purpose: purposes.add(purpose)` over the rate list.
PurposesOf(rate_list) ==
    {rate_list[i].purpose : i \in DOMAIN rate_list} \ {""}

\* luke_prior_realtime.py, save_csv_aggregated: the "Loan Purpose" column.
SaveCsvLoanPurpose(purposes) ==
    IF Cardinality(purposes) > 1 THEN "Both"
    ELSE IF "INVESTMENT" \in purposes THEN "Investment"
    ELSE IF "OWNER_OCCUPIED" \in purposes THEN "Owner Occupier"
    ELSE "Not Specified"

\* monthly_mortgage_pipeline.py, extract_loan_characteristics: 'purpose'
\* starts as 'Both' and is replaced only for a single known purpose.
ExtractLoanCharacteristics(purposes) ==
    IF purposes = {"INVESTMENT"} THEN "Investment"
    ELSE IF purposes = {"OWNER_OCCUPIED"} THEN "Owner Occupier"
    ELSE "Both"

\* improved_feature_scraper.py, extract_loan_purpose_improved.
ExtractLoanPurposeImproved(purposes) ==
    IF purposes = {} THEN "Not Specified"
    ELSE IF Cardinality(purposes) = 1
         THEN IF purposes = {"INVESTMENT"} THEN "Investment" ELSE "Owner Occupier"
         ELSE IF "INVESTMENT" \in purposes /\ "OWNER_OCCUPIED" \in purposes THEN "Both"
         ELSE IF "INVESTMENT" \in purposes THEN "Investment"
         ELSE IF "OWNER_OCCUPIED" \in purposes THEN "Owner Occupier"
         ELSE "Both"

ApplyLoanPurpose ==
    /\ scraper = "norm"
    /\ result = NoResult
    /\ \E f \in {"save_csv_aggregated", "extract_loan_characteristics",
                 "extract_loan_purpose_improved"} :
         result' = [fn |-> f,
                    out |-> CASE f = "save_csv_aggregated" ->
                                   SaveCsvLoanPurpose(PurposesOf(product.rate))
                              [] f = "extract_loan_characteristics" ->
                                   ExtractLoanCharacteristics(PurposesOf(product.rate))
                              [] f = "extract_loan_purpose_improved" ->
                                   ExtractLoanPurposeImproved(PurposesOf(product.rate))]
    /\ UNCHANGED <<config_vars, pc, local_vars, shared_vars, rate_records, main_pc>>





\* ---- the functions applied to one raw product
InitNorm ==
    /\ InitCommon
    /\ workers = 1
    /\ catalog = NoCatalog
    /\ scraper = "norm"
    /\ banks_to_process = {}
    /\ history = FALSE
    /\ product \in RateInputs \cup FeatureInputs
    /\ result = NoResult

NextNorm ==
    \/ ApplyCreateRateRecord
    \/ ApplyExtractRatesEnhanced
    \/ ApplyExtractEnhancedFeatures
    \/ ApplyCalculateAllRepayments
    \/ ApplyCalculateMonthlyRepayments
    \/ ApplyCalculateMonthlyRepayment
    \/ ApplyLoanPurpose

SpecNorm == InitNorm /\ [][NextNorm]_vars

\* ========================================================= period parsing
\* A period code (additionalValue) is a sequence of characters.
MaxCodeLen == 4
CodeChars == {"P", "Y", "M", "D", "X", "Z", "0", "1", "2", "3", "4", "5"}
Digits == {"0", "1", "2", "3", "4", "5"}
PeriodCodes == UNION {[1..n -> CodeChars] : n \in 0..MaxCodeLen}
PeriodInputs == {[code |-> c] : c \in PeriodCodes}

DigitValue(ch) ==
    CASE ch = "0" -> 0 [] ch = "1" -> 1 [] ch = "2" -> 2
      [] ch = "3" -> 3 [] ch = "4" -> 4 [] ch = "5" -> 5

\* str.replace(ch, ''), `ch in str`, `sub in str`, str.startswith(ch)
Replace(str, ch) == SelectSeq(str, LAMBDA c : c # ch)
In(ch, str) == \E i \in DOMAIN str : str[i] = ch
SubIn(sub, str) ==
    \E i \in 0..(Len(str) - Len(sub)) :
      \A j \in 1..Len(sub) : str[i + j] = sub[j]
StartsWith(str, ch) == Len(str) > 0 /\ str[1] = ch

\* int(str): ValueError on the empty string and on a character that is not a
\* digit.
RECURSIVE IntValue(_, _)
IntValue(str, n) ==
    IF n = 0 THEN 0 ELSE IntValue(str, n - 1) * 10 + DigitValue(str[n])
IntRaises(str) == str = <<>> \/ \E i \in DOMAIN str : str[i] \notin Digits
ToInt(str) == IntValue(str, Len(str))

\* The outcome of a parse: None is written MissingValue.
Months(m) == [raised |-> FALSE, months |-> m]
Unspecified == Months(MissingValue)

\* enhanced_rate_scraper.py, parse_period_to_months; the bare except turns a
\* failed int() into None.
parse_period_to_months(period_str) ==
    IF StartsWith(period_str, "P") /\ In("Y", period_str)
    THEN LET years == Replace(Replace(period_str, "P"), "Y")
         IN  IF IntRaises(years) THEN Unspecified ELSE Months(ToInt(years) * 12)
    ELSE IF StartsWith(period_str, "P") /\ In("M", period_str)
    THEN LET months == Replace(Replace(period_str, "P"), "M")
         IN  IF IntRaises(months) THEN Unspecified ELSE Months(ToInt(months))
    ELSE Unspecified

\* luke_prior_realtime.py, convert_to_luke_format: the 'period' key of a rate
\* entry; the key is left out when no branch matches.
convert_to_luke_format(additional_value) ==
    IF additional_value # <<>> /\ In("P", additional_value)
    THEN CASE SubIn(<<"P", "1", "Y">>, additional_value) -> Months(12)
           [] SubIn(<<"P", "2", "Y">>, additional_value) -> Months(24)
           [] SubIn(<<"P", "3", "Y">>, additional_value) -> Months(36)
           [] SubIn(<<"P", "4", "Y">>, additional_value) -> Months(48)
           [] SubIn(<<"P", "5", "Y">>, additional_value) -> Months(60)
           [] OTHER -> Unspecified
    ELSE Unspecified

\* round(days / 30): Python rounds a half to the even neighbour.
Round30(days) ==
    LET q == days \div 30
        r == days % 30
    IN  IF r < 15 THEN q
        ELSE IF r > 15 THEN q + 1
        ELSE IF q % 2 = 0 THEN q ELSE q + 1

\* term_deposits_scraper.py, parse_term_months (the codes here are upper case
\* and hold no 'T', so upper() and replace('T', '') leave them alone).
parse_term_months(term_string) ==
    LET t == Replace(term_string, "P")
    IN  IF In("Y", t)
        THEN LET years == Replace(t, "Y")
             IN  IF IntRaises(years) THEN Unspecified ELSE Months(ToInt(years) * 12)
        ELSE IF In("M", t)
        THEN LET months == Replace(t, "M")
             IN  IF IntRaises(months) THEN Unspecified ELSE Months(ToInt(months))
        ELSE IF In("D", t)
        THEN LET days == Replace(t, "D")
             IN  IF IntRaises(days) THEN Unspecified ELSE Months(Round30(ToInt(days)))
        ELSE Unspecified

\* enhanced_term_deposits_scraper.py, create_rate_record: term_months.
TermCreateRateRecord(additional_value) ==
    IF additional_value # <<>> /\ StartsWith(additional_value, "P")
    THEN IF In("M", additional_value)
         THEN LET months == Replace(Replace(additional_value, "P"), "M")
              IN  IF IntRaises(months) THEN Unspecified ELSE Months(ToInt(months))
         ELSE IF In("Y", additional_value)
         THEN LET years == Replace(Replace(additional_value, "P"), "Y")
              IN  IF IntRaises(years) THEN Unspecified ELSE Months(ToInt(years) * 12)
         ELSE IF In("D", additional_value)
         THEN LET days == Replace(Replace(additional_value, "P"), "D")
              IN  IF IntRaises(days) THEN Unspecified ELSE Months(ToInt(days) \div 30)
         ELSE Unspecified
    ELSE Unspecified

ApplyParsePeriodToMonths ==
    /\ scraper = "period"
    /\ result = NoResult
    /\ result' = [fn |-> "parse_period_to_months",
                  out |-> parse_period_to_months(product.code)]
    /\ UNCHANGED <<config_vars, pc, local_vars, shared_vars, rate_records, main_pc>>

ApplyConvertToLukeFormat ==
    /\ scraper = "period"
    /\ result = NoResult
    /\ result' = [fn |-> "convert_to_luke_format",
                  out |-> convert_to_luke_format(product.code)]
    /\ UNCHANGED <<config_vars, pc, local_vars, shared_vars, rate_records, main_pc>>

ApplyParseTermMonths ==
    /\ scraper = "period"
    /\ result = NoResult
    /\ result' = [fn |-> "parse_term_months",
                  out |-> parse_term_months(product.code)]
    /\ UNCHANGED <<config_vars, pc, local_vars, shared_vars, rate_records, main_pc>>

ApplyTermCreateRateRecord ==
    /\ scraper = "period"
    /\ result = NoResult
    /\ result' = [fn |-> "term_create_rate_record",
                  out |-> TermCreateRateRecord(product.code)]
    /\ UNCHANGED <<config_vars, pc, local_vars, shared_vars, rate_records, main_pc>>

InitPeriod ==
    /\ InitCommon
    /\ workers = 1
    /\ catalog = NoCatalog
    /\ scraper = "period"
    /\ banks_to_process = {}
    /\ history = FALSE
    /\ product \in PeriodInputs
    /\ result = NoResult

NextPeriod ==
    \/ ApplyParsePeriodToMonths
    \/ ApplyConvertToLukeFormat
    \/ ApplyParseTermMonths
    \/ ApplyTermCreateRateRecord

SpecPeriod == InitPeriod /\ [][NextPeriod]_vars

\* ============================================================ fee extraction
\* A raw fee entry of the detail payload: feeType, name, amount and
\* additionalValue (MissingValue: no amount; the entries carry no "rate").
MaxFees == 2
FeeTypes == {"UPFRONT", "PERIODIC", "EXIT", "TRANSACTION", "EVENT"}
FeeNames == {"Application Fee", "Monthly Service Fee", "Valuation Fee"}
FeeAmounts == {MissingValue, 600}
FeePeriods == {"", "P1Y", "P3M"}
RawFees ==
    {[feeType |-> t, name |-> n, amount |-> a, additionalValue |-> v] :
       t \in FeeTypes, n \in FeeNames, a \in FeeAmounts, v \in FeePeriods}
FeeLists == UNION {[1..n -> RawFees] : n \in 0..MaxFees}
FeeInputs == {[fees |-> l] : l \in FeeLists}

\* `keyword in name.lower()` for the names above.
InName(keyword, name) ==
    CASE name = "Application Fee"     -> keyword = "application"
      [] name = "Monthly Service Fee" -> keyword = "monthly"
      [] name = "Valuation Fee"       -> keyword = "valuation"

\* `keyword in fee_type` for feeType.lower().
InFeeType(keyword, fee_type) == fee_type = "EXIT" /\ keyword = "exit"

\* enhanced_fees_scraper.py, parse_frequency on the periods above.
ParseFrequency(period_str) ==
    CASE period_str = "P1Y" -> "Annual"
      [] period_str = "P3M" -> "Quarterly"
      [] OTHER              -> period_str

\* fees_info as extract_fees_info initialises it (None is MissingValue, the
\* list of other ongoing fees is kept apart until the end).
NoFeesInfo ==
    [application_fee |-> MissingValue, application_fee_frequency |-> "None",
     offset_fee |-> MissingValue, offset_fee_frequency |-> "None",
     annual_fee |-> MissingValue, monthly_fee |-> MissingValue,
     exit_fee |-> MissingValue, redraw_fee |-> MissingValue]

Ongoing(fee, suffix) == [name |-> fee.name, amount |-> fee.amount, suffix |-> suffix]

\* One pass of the loop of extract_fees_info: st.fees is fees_info, st.other
\* is ongoing_fees, st.buckets lists the branch each fee took ("none": no
\* branch stored it).
FeesInfoStep(st, fee) ==
    LET amount == fee.amount
        put(bucket, info) ==
            [fees |-> info, other |-> st.other, buckets |-> Append(st.buckets, bucket)]
        ongoing(suffix) ==
            [fees |-> st.fees, other |-> Append(st.other, Ongoing(fee, suffix)),
             buckets |-> Append(st.buckets, "other")]
        skip == [st EXCEPT !.buckets = Append(@, "none")]
    IN  IF fee.feeType = "UPFRONT"
        THEN IF \E k \in {"application", "establishment", "setup"} : InName(k, fee.name)
             THEN put("application_fee",
                      [st.fees EXCEPT !.application_fee = amount,
                                      !.application_fee_frequency = "Once-off"])
             ELSE skip
        ELSE IF fee.feeType = "PERIODIC"
        THEN IF fee.additionalValue # ""
             THEN LET freq == ParseFrequency(fee.additionalValue)
                  IN  IF freq = "Annual" \/ InName("annual", fee.name)
                      THEN put("annual_fee", [st.fees EXCEPT !.annual_fee = amount])
                      ELSE IF freq = "Monthly" \/ InName("monthly", fee.name)
                      THEN put("monthly_fee", [st.fees EXCEPT !.monthly_fee = amount])
                      ELSE IF InName("offset", fee.name)
                      THEN put("offset_fee",
                               [st.fees EXCEPT !.offset_fee = amount,
                                               !.offset_fee_frequency = freq])
                      ELSE ongoing(freq)
             ELSE skip
        ELSE IF fee.feeType = "EXIT"
        THEN put("exit_fee", [st.fees EXCEPT !.exit_fee = amount])
        ELSE IF fee.feeType = "TRANSACTION"
        THEN IF InName("redraw", fee.name)
             THEN put("redraw_fee", [st.fees EXCEPT !.redraw_fee = amount])
             ELSE ongoing("per transaction")
        ELSE ongoing(fee.feeType)

RECURSIVE FeesInfoLoop(_, _)
FeesInfoLoop(fees, n) ==
    IF n = 0 THEN [fees |-> NoFeesInfo, other |-> <<>>, buckets |-> <<>>]
    ELSE FeesInfoStep(FeesInfoLoop(fees, n - 1), fees[n])

\* extract_fees_info: the loop, then other_ongoing_fees = ongoing_fees[:3].
ExtractFeesInfo(fees) ==
    LET st == FeesInfoLoop(fees, Len(fees))
    IN  [st EXCEPT !.other = SubSeq(@, 1, IF Len(@) < 3 THEN Len(@) ELSE 3)]

\* f"${amount:.0f}" and f"${amount}"; '' is the text of a bucket left empty.
Dollars(amount) == [text |-> "$", amount |-> amount]
NoFeeText == [text |-> "", amount |-> MissingValue]

\* comprehensive_cdr_scraper.py, extract_fees_comprehensive.
NoFeesComprehensive ==
    [k \in {"application_fee", "annual_fee", "monthly_fee", "exit_fee",
            "valuation_fee", "settlement_fee"} |-> NoFeeText]

FeesComprehensiveStep(st, fee) ==
    LET fee_value == Dollars(fee.amount)
        put(bucket) ==
            [fees |-> [st.fees EXCEPT ![bucket] = fee_value], other |-> st.other,
             buckets |-> Append(st.buckets, bucket)]
        in(k) == InFeeType(k, fee.feeType) \/ InName(k, fee.name)
    IN  IF fee.amount = MissingValue
        THEN [st EXCEPT !.buckets = Append(@, "none")]
        ELSE IF in("application") \/ InName("establishment", fee.name)
        THEN put("application_fee")
        ELSE IF in("annual") \/ InName("yearly", fee.name)
        THEN put("annual_fee")
        ELSE IF in("monthly") THEN put("monthly_fee")
        ELSE IF in("exit") \/ InName("termination", fee.name)
        THEN put("exit_fee")
        ELSE IF in("valuation") THEN put("valuation_fee")
        ELSE IF in("settlement") THEN put("settlement_fee")
        ELSE [fees |-> st.fees,
              other |-> Append(st.other, [name |-> fee.name, amount |-> fee_value,
                                          suffix |-> ""]),
              buckets |-> Append(st.buckets, "other")]

RECURSIVE ExtractFeesComprehensive(_, _)
ExtractFeesComprehensive(fee_data, n) ==
    IF n = 0 THEN [fees |-> NoFeesComprehensive, other |-> <<>>, buckets |-> <<>>]
    ELSE FeesComprehensiveStep(ExtractFeesComprehensive(fee_data, n - 1), fee_data[n])

\* cds_api_scraper.py, extract_fees: fees[name] = f"${amount}" or "See terms";
\* the key is the raw name, so every fee is filed under its own name.
RECURSIVE ExtractFees(_, _)
ExtractFees(fee_list, n) ==
    IF n = 0 THEN [fees |-> NoRates, other |-> <<>>, buckets |-> <<>>]
    ELSE LET st == ExtractFees(fee_list, n - 1)
             fee == fee_list[n]
             text == IF fee.amount # MissingValue THEN Dollars(fee.amount)
                     ELSE [text |-> "See terms", amount |-> MissingValue]
         IN  [fees |-> SetSlot(st.fees, fee.name, text), other |-> st.other,
              buckets |-> Append(st.buckets, fee.name)]

ApplyExtractFeesInfo ==
    /\ scraper = "fee"
    /\ result = NoResult
    /\ result' = [fn |-> "extract_fees_info", out |-> ExtractFeesInfo(product.fees)]
    /\ UNCHANGED <<config_vars, pc, local_vars, shared_vars, rate_records, main_pc>>

ApplyExtractFeesComprehensive ==
    /\ scraper = "fee"
    /\ result = NoResult
    /\ result' = [fn |-> "extract_fees_comprehensive",
                  out |-> ExtractFeesComprehensive(product.fees, Len(product.fees))]
    /\ UNCHANGED <<config_vars, pc, local_vars, shared_vars, rate_records, main_pc>>

ApplyExtractFees ==
    /\ scraper = "fee"
    /\ result = NoResult
    /\ result' = [fn |-> "extract_fees",
                  out |-> ExtractFees(product.fees, Len(product.fees))]
    /\ UNCHANGED <<config_vars, pc, local_vars, shared_vars, rate_records, main_pc>>

InitFees ==
    /\ InitCommon
    /\ workers = 1
    /\ catalog = NoCatalog
    /\ scraper = "fee"
    /\ banks_to_process = {}
    /\ history = FALSE
    /\ product \in FeeInputs
    /\ result = NoResult

NextFees ==
    \/ ApplyExtractFeesInfo
    \/ ApplyExtractFeesComprehensive
    \/ ApplyExtractFees

SpecFees == InitFees /\ [][NextFees]_vars

\* ==================================================== normalising a product
\* A product is a dictionary; product.get(key, default):
Get(d, key, default) == IF key \in DOMAIN d THEN d[key] ELSE default

ProductNames == {"", "Offset Home Loan"}
ProductDescriptions == {"", "Basic variable loan"}
ProductIds == {"", "p1"}
RawProducts ==
    {[name |-> n, description |-> d, productId |-> i, rate |-> l] :
       n \in ProductNames, d \in ProductDescriptions, i \in ProductIds,
       l \in {r \in RateLists : Len(r) <= 1}}

\* 'offset' in text.lower() for the texts above.
HasOffset(text) == text = "Offset Home Loan"

\* monthly_mortgage_pipeline.py, enhance_product_data, on the fields of the
\* record it returns that come from the product: the record is written as the
\* dictionary of its fields.
EnhanceProductData(d) ==
    LET name == Get(d, "name", "")
        product_name == IF name # "" THEN name ELSE Get(d, "productName", "")
        rate_list == Get(d, "rate", <<>>)
        rates == ExtractEnhancedRates(rate_list, Len(rate_list))
        features ==
          ExtractEnhancedFeatures(
            [offset |-> "absent",
             text_offset |-> \/ HasOffset(name)
                             \/ HasOffset(Get(d, "description", ""))
                             \/ HasOffset(Get(d, "productName", ""))])
    IN  [product_id |-> Get(d, "productId", ""),
         product_name |-> product_name,
         description |-> Get(d, "description", ""),
         variable_rate |-> GetSlot(rates, "variable"),
         fixed_rate_1yr |-> GetSlot(rates, "fixed_1yr"),
         fixed_rate_3yr |-> GetSlot(rates, "fixed_3yr"),
         offset_available |-> features]

\* realtime_cdr_pipeline.py, process_product_to_structured_format, likewise.
ProcessProductToStructuredFormat(d) ==
    LET product_name == Get(d, "name", "")
        description == Get(d, "description", "")
    IN  [product_id |-> Get(d, "productId", ""),
         product_name |-> product_name,
         description |-> description,
         variable_rates |-> <<>>,
         offset_available |-> HasOffset(product_name) \/ HasOffset(description)]

Normalizers == {"enhance_product_data", "process_product_to_structured_format"}
Normalize(fn, d) ==
    IF fn = "enhance_product_data" THEN EnhanceProductData(d)
    ELSE ProcessProductToStructuredFormat(d)

\* The normalizer applied to a raw product.
ApplyNormalize ==
    /\ scraper = "canon"
    /\ result = NoResult
    /\ \E fn \in Normalizers :
         result' = [fn |-> fn, pass |-> 1, out |-> Normalize(fn, product)]
    /\ UNCHANGED <<config_vars, pc, local_vars, shared_vars, rate_records, main_pc>>

\* The same normalizer applied to the record it returned; `first` keeps that
\* record.
ApplyNormalizeAgain ==
    /\ scraper = "canon"
    /\ result.fn \in Normalizers
    /\ result.pass = 1
    /\ result' = [fn |-> result.fn, pass |-> 2, first |-> result.out,
                  out |-> Normalize(result.fn, result.out)]
    /\ UNCHANGED <<config_vars, pc, local_vars, shared_vars, rate_records, main_pc>>

InitCanon ==
    /\ InitCommon
    /\ workers = 1
    /\ catalog = NoCatalog
    /\ scraper = "canon"
    /\ banks_to_process = {}
    /\ history = FALSE
    /\ product \in RawProducts
    /\ result = NoResult

NextCanon ==
    \/ ApplyNormalize
    \/ ApplyNormalizeAgain

SpecCanon == InitCanon /\ [][NextCanon]_vars

\* ========================================================== the repayments
\* The percentage a product text shows ("5.50%" reads as the number 5.5, which
\* is 5500 thousandths); MissingValue: the text shows none.
TextPercent == 5500
RepaymentInputs ==
    {[rate |-> l, text_percent |-> t] :
       l \in {r \in RateLists : Len(r) <= 1}, t \in {MissingValue, TextPercent}}

n_payments == 30 * 12

\* payment = amount * (monthly_rate * (1 + monthly_rate)**n_payments)
\*                  / ((1 + monthly_rate)**n_payments - 1), rounded to 2 places:
\* the annuity payment, kept as the arguments of the expression, the monthly
\* rate as the quotient rate_num / rate_den.
Payment(amount, rate_num, rate_den) ==
    [amount |-> amount, rate_num |-> rate_num, rate_den |-> rate_den,
     n |-> n_payments]
NoPayment == [amount |-> 0, rate_num |-> 0, rate_den |-> 1, n |-> 0]

\* monthly_mortgage_pipeline.py, extract_enhanced_rates with its fallback:
\* when the list gave no rate, the first "<number>%" of the product text
\* becomes the variable rate and is noted as extracted from the text.
ExtractEnhancedRatesOf(p) ==
    LET rates == ExtractEnhancedRates(p.rate, Len(p.rate))
    IN  IF rates = NoRates /\ p.text_percent # MissingValue
        THEN [rates |-> SetSlot(NoRates, "variable", p.text_percent),
              notes |-> "Extracted from product text"]
        ELSE [rates |-> rates, notes |-> ""]

\* calculate_all_repayments: monthly_rate = rate / 12 for the selected rate.
loan_amounts == {300000, 500000, 750000, 1000000}
CalculateAllRepayments(rates) ==
    LET sel == FirstAvailable(rates, monthly_order, 1)
    IN  [amount \in loan_amounts |->
           IF sel # NoSelection /\ sel.rate > 0
           THEN Payment(amount, sel.rate, 12)
           ELSE NoPayment]

\* enhanced_realtime_scraper.py, calculate_monthly_repayment:
\* monthly_rate = rate / 100 / 12; None for a rate that is None or <= 0.
enhanced_loan_amounts == {300000, 500000, 750000}
CalculateMonthlyRepaymentOf(rate, loan_amount) ==
    IF rate = MissingValue \/ rate <= 0 THEN NoPayment
    ELSE Payment(loan_amount, rate, 100 * 12)

ApplyAllRepayments ==
    /\ scraper = "repay"
    /\ result = NoResult
    /\ LET extracted == ExtractEnhancedRatesOf(product)
       IN  result' = [fn |-> "calculate_all_repayments",
                      notes |-> extracted.notes,
                      out |-> CalculateAllRepayments(extracted.rates)]
    /\ UNCHANGED <<config_vars, pc, local_vars, shared_vars, rate_records, main_pc>>

ApplyMonthlyRepayment ==
    /\ scraper = "repay"
    /\ result = NoResult
    /\ LET extracted == ExtractRatesEnhanced(product.rate, Len(product.rate))
           best_rate == FirstAvailable(extracted.rates, enhanced_order, 1).rate
       IN  /\ ~extracted.raised
           /\ result' = [fn |-> "calculate_monthly_repayment",
                         notes |-> "",
                         out |-> [amount \in enhanced_loan_amounts |->
                                    CalculateMonthlyRepaymentOf(best_rate, amount)]]
    /\ UNCHANGED <<config_vars, pc, local_vars, shared_vars, rate_records, main_pc>>

InitRepay ==
    /\ InitCommon
    /\ workers = 1
    /\ catalog = NoCatalog
    /\ scraper = "repay"
    /\ banks_to_process = {}
    /\ history = FALSE
    /\ product \in RepaymentInputs
    /\ result = NoResult

NextRepay ==
    \/ ApplyAllRepayments
    \/ ApplyMonthlyRepayment

SpecRepay == InitRepay /\ [][NextRepay]_vars

\* ============================================================== rate tiers
\* A rate entry with its tiers (the names of the tiers, in order).
MaxTiers == 2
TierNames == {"LVR up to 80", "LVR above 80"}
TierLists == UNION {[1..n -> TierNames] : n \in 0..MaxTiers}
TieredEntries ==
    {[type |-> "VARIABLE", term |-> "", value |-> v, purpose |-> "", tiers |-> t] :
       v \in {BadValue, 5500}, t \in TierLists}
TieredInputs ==
    {[rate |-> l] : l \in UNION {[1..n -> TieredEntries] : n \in 0..MaxRates}}

WithTier(record, tier_name) == [tier_name |-> tier_name] @@ record

\* enhanced_rate_scraper.py, create_rate_record with its tiers: one record is
\* built for each tier, then `return records[0] if records else None`.
create_rate_record(rate_data) ==
    LET base == CreateRateRecord(rate_data)
        tiers == rate_data.tiers
        tier_records == [i \in DOMAIN tiers |-> WithTier(base, tiers[i])]
    IN  IF base = NoRecord THEN NoRecord
        ELSE IF tiers # <<>> THEN tier_records[1]
        ELSE WithTier(base, "None")

\* enhanced_fees_scraper.py, create_complete_record: first_tier = tiers[0].
create_complete_record(rate_data) ==
    LET base == CreateRateRecord(rate_data)
        tiers == rate_data.tiers
    IN  IF base = NoRecord THEN NoRecord
        ELSE WithTier(base, IF tiers # <<>> THEN tiers[1] ELSE "None")

\* enhanced_term_deposits_scraper.py, create_rate_record: a rejected rate
\* leaves interest_rate None; tier = tiers[0].
term_create_rate_record(rate_data) ==
    LET tiers == rate_data.tiers
    IN  [rate_type |-> rate_data.type,
         interest_rate |-> IF rate_data.value = BadValue THEN MissingValue
                           ELSE rate_data.value,
         tier_name |-> IF tiers # <<>> THEN tiers[1] ELSE "None"]

TierRecorders ==
    {"create_rate_record", "create_complete_record", "term_create_rate_record"}
RecordOf(fn, rate_data) ==
    CASE fn = "create_rate_record"      -> create_rate_record(rate_data)
      [] fn = "create_complete_record"  -> create_complete_record(rate_data)
      [] fn = "term_create_rate_record" -> term_create_rate_record(rate_data)

\* for rate in rates: record = ...; if record: records.append(record)
RECURSIVE TieredRecords(_, _, _)
TieredRecords(fn, rates, n) ==
    IF n = 0 THEN <<>>
    ELSE LET record == RecordOf(fn, rates[n])
             before == TieredRecords(fn, rates, n - 1)
         IN  IF record # NoRecord THEN Append(before, record) ELSE before

ApplyTieredRecords ==
    /\ scraper = "tiers"
    /\ result = NoResult
    /\ \E fn \in TierRecorders :
         result' = [fn |-> fn,
                    out |-> TieredRecords(fn, product.rate, Len(product.rate))]
    /\ UNCHANGED <<config_vars, pc, local_vars, shared_vars, rate_records, main_pc>>

InitTiers ==
    /\ InitCommon
    /\ workers = 1
    /\ catalog = NoCatalog
    /\ scraper = "tiers"
    /\ banks_to_process = {}
    /\ history = FALSE
    /\ product \in TieredInputs
    /\ result = NoResult

NextTiers == ApplyTieredRecords

SpecTiers == InitTiers /\ [][NextTiers]_vars

\* ================================================================ claims
Last(seq) == seq[Len(seq)]
RecordsOf(sink, b) == SelectSeq(sink, LAMBDA rec : rec.bank = b)
TaskStep(b) ==
    ListAttempt(b) \/ DetailAttempt(b) \/ CounterLoad(b) \/ CounterStore(b)
Failed(b) == b \in DOMAIN errors
ListingFailed(b) ==
    \/ err[b] = "No mortgage products found"
    \/ (Failed(b) /\ errors[b] = "No mortgage products found")

\* C1. A failure or exception in one bank's task never cancels, blocks or
\* corrupts another bank's task: whatever happened to the other tasks, a
\* started task can always take its next step, nothing of a task reaches the
\* collection before it is collected, and once it is collected the collection
\* holds exactly the records the task returned, in order; the run ends only when
\* every task was collected.
C1_Isolation ==
    /\ \A b \in banks_to_process :
         /\ pc[b] \notin {"queued", "returned", "collected"} => ENABLED TaskStep(b)
         /\ pc[b] = "returned" => ENABLED Collect(b)
         /\ pc[b] # "collected" => RecordsOf(rate_records, b) = <<>>
         /\ pc[b] = "collected" => RecordsOf(rate_records, b) = records[b]
    /\ main_pc = "done" => \A b \in banks_to_process : pc[b] = "collected"

C1_Witness ==
    /\ main_pc = "done"
    /\ \E a, b \in banks_to_process :
         /\ a # b
         /\ Failed(a) /\ errors[a] = "exception"
         /\ ~Failed(b)
         /\ RecordsOf(rate_records, b) # <<>>

C3_NotFoundStopsCascade ==
    \A b \in banks_to_process :
      \A i \in 1..Len(dattempts[b]) :
        dattempts[b][i][2] = "404" =>
          /\ i = Len(dattempts[b])
          /\ pc[b] \notin {"detail", "converting"}
          /\ \A j \in 1..Len(records[b]) :
               records[b][j].product = pidx[b] => records[b][j].rate = 0

\* C4. In fetch_products_basic a timeout ends only its own attempt: after a
\* timeout on a version that is not the last one, the next version has been
\* attempted or is the one about to be attempted; and a listing fetch that
\* fails has attempted every version.
C4_TimeoutEndsOnlyAttempt ==
    \A b \in banks_to_process :
      LET log == attempts[b] IN
        /\ \A i \in 1..Len(log) :
             (log[i][2] = "timeout" /\ i < Len(api_versions)) =>
               \/ Len(log) > i
               \/ (pc[b] = "listing" /\ ver[b] = i + 1)
        /\ (history /\ ListingFailed(b)) => Len(log) = Len(api_versions)

C4_Witness ==
    \E b \in banks_to_process :
      /\ Len(attempts[b]) = Len(api_versions)
      /\ attempts[b][1][2] = "timeout"
      /\ attempts[b][2][2] = "timeout"
      /\ Last(attempts[b])[2] = "ok"

AllTimedOut(b) ==
    /\ Len(attempts[b]) = Len(api_versions)
    /\ \A i \in 1..Len(attempts[b]) : attempts[b][i][2] = "timeout"

\* C5 (as claimed). When every version was tried without success the listing
\* fetch returns empty with a classified failure: a bank that timed out on
\* every version ends with zero records and an outcome classified as a
\* network error.
C5_ExhaustionClassified ==
    \A b \in banks_to_process :
      (AllTimedOut(b) /\ pc[b] \in {"returned", "collected"}) =>
        /\ records[b] = <<>>
        /\ Failed(b)
        /\ errors[b] = "NetworkError"

ListingEndedEmpty(b) ==
    /\ Len(attempts[b]) = Len(api_versions)
    /\ Last(attempts[b])[2] # "ok"

\* C6 (as claimed). If the listing fetch fails, the task records the bank as
\* failed and ends without a single detail call: no detail call is issued, no
\* record is produced, and when the task has returned the bank is in
\* self.errors.
C6_ListingFailureEndsTask ==
    \A b \in banks_to_process :
      ListingEndedEmpty(b) =>
        /\ pc[b] \in {"err_load", "err_store", "returned", "collected"}
        /\ detail_calls[b] = 0
        /\ records[b] = <<>>
        /\ pc[b] \in {"returned", "collected"} => Failed(b)

DetailFailedForLast(b) ==
    /\ pc[b] \notin {"queued", "listing", "detail"}
    /\ dattempts[b] # <<>>
    /\ Last(dattempts[b])[2] \in {"no_data", "404", "406", "timeout"}

\* C7 (as claimed). A selected product whose detail fetch failed (404, or
\* every version failed) is still emitted as a listing-only record.
C7_ListingOnlyRecordEmitted ==
    \A b \in banks_to_process :
      DetailFailedForLast(b) =>
        \E j \in 1..Len(records[b]) : records[b][j] = Record(b, pidx[b], 0)

FetchFailures == {"timeout", "406", "malformed", "bad_envelope"}

\* C8. In fetch_bank_products_robust a network error, a rejected version and
\* a malformed answer never leave the task as an exception: the future never
\* holds one, and a fetch whose last answer was such a failure has returned
\* the empty list with the brand recorded in self.errors.
C8_FetchErrorsBecomeOutcomeData ==
    \A b \in banks_to_process :
      /\ pc[b] # "raised"
      /\ (attempts[b] # <<>> /\ pc[b] # "listing"
            /\ Last(attempts[b])[2] \in FetchFailures)
           => (basic_products[b] = 0 /\ Failed(b)
                 /\ errors[b] \in {"All API attempts failed", "exception"})

C8_Witness ==
    \E b \in banks_to_process :
      /\ Len(attempts[b]) = 3
      /\ attempts[b][1][2] = "timeout"
      /\ attempts[b][2][2] = "406"
      /\ attempts[b][3][2] = "malformed"
      /\ pc[b] = "collected"
      /\ Failed(b) /\ errors[b] = "exception"

Accessors(x) ==
    CASE x = "error_count" ->
           {b \in banks_to_process : pc[b] = "err_store" \/ Failed(b)}
      [] x = "errors" ->
           {b \in banks_to_process : Failed(b)}
      [] x = "success_count" ->
           {b \in banks_to_process :
              \/ pc[b] = "succ_store"
              \/ (pc[b] \in {"returned", "collected"} /\ ~Failed(b))}

\* C9 (as claimed). Running tasks share no mutable state: no attribute of the
\* scraper is read or written by two different tasks.
C9_TasksShareNoMutableState ==
    \A x \in {"success_count", "error_count", "errors"} :
      Cardinality(Accessors(x)) <= 1

\* C10 (as claimed). The final collection is the only shared mutable
\* structure and it is written once per task, as a whole batch: the tasks
\* write nothing that another task also writes, and the collection holds of
\* each bank either nothing or exactly the batch its task returned.
C10_SinkOnlySharedWrittenOncePerTask ==
    /\ \A a, b \in banks_to_process :
         (a # b /\ pc[a] \in {"returned", "collected"}
                /\ pc[b] \in {"returned", "collected"})
           => (Failed(a) # Failed(b))
    /\ \A b \in banks_to_process :
         RecordsOf(rate_records, b) \in {<<>>, records[b]}

\* The HTTP calls in flight: a worker thread inside fetch_products_basic /
\* fetch_bank_products_robust or fetch_product_details has one call in flight,
\* and so has the main thread inside fetch_detailed_product_data.
InFlight ==
    Cardinality({b \in banks_to_process : pc[b] \in {"listing", "detail", "converting"}})

\* C11 (as claimed). At every instant the number of HTTP calls in flight,
\* listing and detail fetches together, is at most the size configured for the
\* pool.
C11_InFlightWithinCeiling == InFlight <= workers

\* The pool scrapers alone keep the ceiling.
PoolScrapersWithinCeiling == scraper \in Scrapers => InFlight <= workers

Count(seq, x) == Cardinality({i \in DOMAIN seq : seq[i] = x})
SameMultiset(s, t) ==
    \A x \in {s[i] : i \in DOMAIN s} \cup {t[i] : i \in DOMAIN t} :
      Count(s, x) = Count(t, x)
Orders(S) ==
    {o \in [1..Cardinality(S) -> S] : \A i, j \in DOMAIN o : i # j => o[i] # o[j]}
RECURSIVE MergeInOrder(_, _)
MergeInOrder(order, n) ==
    IF n = 0 THEN <<>>
             ELSE Extend(MergeInOrder(order, n - 1), records[order[n]])

\* C12. The merge does not depend on the order of completion: when the run has
\* ended, the collection holds the same multiset of records as the merge of
\* the tasks' batches taken in any order, grouping the merge differently gives
\* the same collection, and the recorded failures are exactly the failures of
\* the tasks, each with its own task's message.
C12_MergeOrderIndependent ==
    /\ main_pc = "done" =>
         /\ \A o \in Orders(banks_to_process) :
              SameMultiset(rate_records, MergeInOrder(o, Len(o)))
         /\ \A b \in banks_to_process :
              /\ Failed(b) <=> err[b] # NoError
              /\ Failed(b) => errors[b] = err[b]
    /\ \A a, b \in banks_to_process :
         Extend(Extend(rate_records, records[a]), records[b])
           = Extend(rate_records, Extend(records[a], records[b]))

C12_Witness ==
    /\ main_pc = "done"
    /\ Len(rate_records) >= 2
    /\ rate_records[1].bank = 2
    /\ rate_records[Len(rate_records)].bank = 1
    /\ \A b \in banks_to_process : ~Failed(b)

\* C13 (as claimed). Every task yields exactly one outcome: when the run has
\* ended, the reported success count plus the reported failure count is the
\* number of banks dispatched.
C13_CountsAddUp ==
    main_pc = "done" =>
      success_count + error_count = Cardinality(banks_to_process)

ProductsOf(sink, b) == {sink[i].product : i \in {j \in DOMAIN sink : sink[j].bank = b}}

\* C14 (as claimed). For every bank, the products for which records were
\* emitted are no more than the entries of the bank's listing that match the
\* category filter (several records of one product count once: they are its
\* rate splits).
C14_RecordsWithinMatchedListing ==
    \A b \in banks_to_process :
      Cardinality(ProductsOf(rate_records, b)) <= catalog[b].matched

\* C15 (as claimed). The normalising functions are total: whatever the values
\* of the raw rate entries, they do not raise, and every raw rate entry is
\* turned into a record.
C15_NormalizerTotal ==
    /\ result.fn = "create_rate_record" => Len(result.out) = Len(product.rate)
    /\ result.fn = "extract_rates_enhanced" => ~result.out.raised

\* C16 (as claimed). The structured offset entry is authoritative and the text
\* is a fallback: without a structured entry the flag is what the text scan
\* finds, with one the flag is the structured value whatever the text says.
C16_StructuredFeatureWins ==
    result.fn = "extract_enhanced_features" =>
      result.out = IF product.offset = "absent" THEN product.text_offset
                                                ELSE product.offset = "true"

ValidEntries(p) ==
    {p.rate[i] : i \in {j \in DOMAIN p.rate : p.rate[j].value > 0}}
TermMonths(slot) ==
    CASE slot \in {"fixed_1yr", "fixed_rate_1yr"} -> 12
      [] slot \in {"fixed_2yr", "fixed_rate_2yr"} -> 24
      [] slot \in {"fixed_3yr", "fixed_rate_3yr"} -> 36
      [] OTHER -> 0

\* C17 (as claimed). The rate selected for the repayments is the variable rate
\* if the product has one, otherwise its fixed rate of the shortest term,
\* otherwise none.
C17_VariableThenShortestFixed ==
    result.fn = "calculate_all_repayments" =>
      LET valid == ValidEntries(product)
          fixed == {e \in valid : e.type = "FIXED"}
      IN  IF \E e \in valid : e.type = "VARIABLE"
          THEN result.out.slot = "variable"
          ELSE IF fixed # {}
               THEN \A e \in fixed : TermMonths(result.out.slot) <= AggregatedPeriod(e)
               ELSE result.out = NoSelection

\* C18 (as claimed). A rate whose value is 0 or missing is never the one
\* selected for the repayments, and the repayment fields are filled only from
\* a selected rate above 0: otherwise they are absent.
C18_ZeroRateNeverSelected ==
    result.fn \in {"calculate_monthly_repayments", "calculate_monthly_repayment"} =>
      /\ result.out.selected # NoSelection => result.out.selected.rate > 0
      /\ result.out.selected = NoSelection => result.out.repayment = ""
      /\ result.out.repayment \in {"", "amount"}

\* The same for the function of enhanced_realtime_scraper alone.
EnhancedZeroRateNeverSelected ==
    result.fn = "calculate_monthly_repayment" =>
      /\ result.out.selected # NoSelection => result.out.selected.rate > 0
      /\ result.out.repayment = (IF result.out.selected = NoSelection THEN "" ELSE "amount")

PurposeLabel(purposes) ==
    IF purposes = {} THEN "Not Specified"
    ELSE IF Cardinality(purposes) > 1 THEN "Both"
    ELSE IF purposes = {"INVESTMENT"} THEN "Investment" ELSE "Owner Occupier"

\* C19 (as claimed). The purpose of the product is "Both" when its rate entries
\* show more than one purpose, the purpose itself when they show exactly one,
\* and "Not Specified" when they show none.
C19_PurposeAggregation ==
    result.fn \in {"save_csv_aggregated", "extract_loan_characteristics",
                   "extract_loan_purpose_improved"} =>
      result.out = PurposeLabel(PurposesOf(product.rate))

\* The same for the two functions that start from "Not Specified".
PurposeAggregationElsewhere ==
    result.fn \in {"save_csv_aggregated", "extract_loan_purpose_improved"} =>
      result.out = PurposeLabel(PurposesOf(product.rate))

SameKey(e, f) == e.type = f.type /\ e.term = f.term /\ e.purpose = f.purpose

\* C20 (as claimed). Within one product no two rate entries of the output
\* share kind, term and purpose, and duplicates are merged keeping the value
\* seen first: where all the entries filed under a slot are duplicates of one
\* another, the slot holds the value of the first of them.
C20_DuplicatesKeepFirstSeen ==
    /\ result.fn = "create_rate_record" =>
         \A i, j \in DOMAIN result.out :
           (i # j) =>
             ~(/\ result.out[i].rate_type = result.out[j].rate_type
               /\ result.out[i].fixed_term_months = result.out[j].fixed_term_months
               /\ result.out[i].loan_purpose = result.out[j].loan_purpose)
    /\ (result.fn = "extract_rates_enhanced" /\ ~result.out.raised) =>
         \A i \in DOMAIN product.rate :
           LET e == product.rate[i]
               same_slot == {j \in DOMAIN product.rate :
                               /\ RateSlot(product.rate[j]) = RateSlot(e)
                               /\ product.rate[j].value # MissingValue}
           IN  (/\ i \in same_slot
                /\ \A j \in same_slot : i <= j /\ SameKey(e, product.rate[j]))
               => result.out.rates[RateSlot(e)] = e.value * 100

\* The values a source entry of the list carries as a fraction (a missing
\* value reads as 0.0).
FractionsOf(rate_list) ==
    {IF rate_list[i].value = MissingValue THEN 0 ELSE rate_list[i].value :
       i \in DOMAIN rate_list}

\* C21 (as claimed). Every rate value stored in a record is the fraction the
\* source gave (0.0624), never that fraction turned into a percentage number.
C21_RatesStoredAsFractions ==
    /\ (result.fn = "extract_rates_enhanced" /\ ~result.out.raised) =>
         \A k \in DOMAIN result.out.rates :
           result.out.rates[k] \in FractionsOf(product.rate)
    /\ result.fn = "create_rate_record" =>
         \A j \in DOMAIN result.out :
           result.out[j].rate_value \in FractionsOf(product.rate)

\* create_rate_record stores the fraction as given.
CreateRateRecordStoresFractions ==
    result.fn = "create_rate_record" =>
      \A j \in DOMAIN result.out :
        result.out[j].rate_value \in FractionsOf(product.rate)

PeriodParsers ==
    {"parse_period_to_months", "convert_to_luke_format", "parse_term_months"}

\* C22 (as claimed). Period parsing maps "P1Y" to 12 months, "P5Y" to 60
\* months and "P3M" to 3 months, and maps the malformed code "XYZ" to term
\* unspecified without raising.
C22_PeriodParsing ==
    result.fn \in PeriodParsers =>
      /\ ~result.out.raised
      /\ product.code = <<"P", "1", "Y">> => result.out.months = 12
      /\ product.code = <<"P", "5", "Y">> => result.out.months = 60
      /\ product.code = <<"P", "3", "M">> => result.out.months = 3
      /\ product.code = <<"X", "Y", "Z">> => result.out.months = MissingValue

\* The two parsers written as functions do map the four codes as claimed.
PeriodParsingElsewhere ==
    result.fn \in {"parse_period_to_months", "parse_term_months"} =>
      /\ ~result.out.raised
      /\ product.code = <<"P", "1", "Y">> => result.out.months = 12
      /\ product.code = <<"P", "5", "Y">> => result.out.months = 60
      /\ product.code = <<"P", "3", "M">> => result.out.months = 3
      /\ product.code = <<"X", "Y", "Z">> => result.out.months = MissingValue

\* The code is "P<d>D" for a number d.
IsDayCode(code) ==
    /\ Len(code) >= 3
    /\ code[1] = "P"
    /\ code[Len(code)] = "D"
    /\ \A i \in 2..(Len(code) - 1) : code[i] \in Digits
DaysOf(code) == ToInt(SubSeq(code, 2, Len(code) - 1))

\* C23 (as claimed). A day-based period code "P<d>D" is parsed as
\* floor(d/30) months.
C23_DayCodeFloorsToMonths ==
    (/\ result.fn \in {"parse_term_months", "term_create_rate_record",
                       "parse_period_to_months"}
     /\ IsDayCode(product.code))
    => result.out.months = DaysOf(product.code) \div 30

\* create_rate_record of the enhanced term-deposit scraper does floor.
TermCreateRateRecordFloors ==
    (result.fn = "term_create_rate_record" /\ IsDayCode(product.code))
    => result.out.months = DaysOf(product.code) \div 30

FeeExtractors == {"extract_fees_info", "extract_fees_comprehensive", "extract_fees"}
ApplicationFee600 ==
    [feeType |-> "UPFRONT", name |-> "Application Fee", amount |-> 600,
     additionalValue |-> ""]

\* The fee is filed as an application (origination) fee of 600 charged once;
\* the amount is the number, or the text "$600" where amounts are kept as text.
FiledAsOrigination(fn, fees) ==
    /\ "application_fee" \in DOMAIN fees
    /\ fees.application_fee =
         (IF fn = "extract_fees_info" THEN 600 ELSE Dollars(600))
    /\ "application_fee_frequency" \in DOMAIN fees
    /\ fees.application_fee_frequency = "Once-off"

\* C24 (as claimed). A raw fee entry with category "UPFRONT", name
\* "Application Fee" and amount 600 normalizes to a fee with category
\* origination, amount 600 and frequency once.
C24_ApplicationFeeNormalized ==
    (result.fn \in FeeExtractors /\ product.fees = <<ApplicationFee600>>)
    => FiledAsOrigination(result.fn, result.out.fees)

\* extract_fees_info files the entry as claimed.
FeesInfoApplicationFee ==
    (result.fn = "extract_fees_info" /\ product.fees = <<ApplicationFee600>>)
    => FiledAsOrigination(result.fn, result.out.fees)

\* C25 (as claimed). The bucket assigned to a fee is a function of its raw
\* category and raw name only: two entries with the same category and name
\* receive the same bucket, whatever their other fields and their position
\* (for the entries that carry an amount to file).
C25_BucketDependsOnCategoryAndName ==
    result.fn \in {"extract_fees_info", "extract_fees_comprehensive"} =>
      \A i, j \in DOMAIN product.fees :
        (/\ product.fees[i].feeType = product.fees[j].feeType
         /\ product.fees[i].name = product.fees[j].name
         /\ product.fees[i].amount # MissingValue
         /\ product.fees[j].amount # MissingValue)
        => result.out.buckets[i] = result.out.buckets[j]

\* extract_fees_comprehensive chooses the bucket from category and name alone.
ComprehensiveBucketOfFees ==
    result.fn = "extract_fees_comprehensive" =>
      \A i, j \in DOMAIN product.fees :
        (/\ product.fees[i].feeType = product.fees[j].feeType
         /\ product.fees[i].name = product.fees[j].name
         /\ product.fees[i].amount # MissingValue
         /\ product.fees[j].amount # MissingValue)
        => result.out.buckets[i] = result.out.buckets[j]

\* C26 (as claimed). A fee (with an amount) that matches no specific bucket is
\* recorded in the `other` bucket with its raw name preserved.
C26_UnmatchedFeesKeptInOther ==
    result.fn \in {"extract_fees_info", "extract_fees_comprehensive"} =>
      \A i \in DOMAIN product.fees :
        (/\ result.out.buckets[i] \in {"other", "none"}
         /\ product.fees[i].amount # MissingValue)
        => \E k \in DOMAIN result.out.other :
             result.out.other[k].name = product.fees[i].name

\* extract_fees_comprehensive keeps every unmatched fee that has an amount.
ComprehensiveUnmatchedFees ==
    result.fn = "extract_fees_comprehensive" =>
      \A i \in DOMAIN product.fees :
        (/\ result.out.buckets[i] \in {"other", "none"}
         /\ product.fees[i].amount # MissingValue)
        => \E k \in DOMAIN result.out.other :
             result.out.other[k].name = product.fees[i].name

\* C27 (as claimed). The Normalizer is idempotent: re-normalizing an output
\* that is already in canonical shape yields an identical result.
C27_NormalizerIdempotent ==
    (result.fn \in Normalizers /\ result.pass = 2) => result.out = result.first

\* The annual rate behind the payment, as a fraction: the value of the rate
\* entry, or a hundredth of the percentage read from the product text.
AnnualFraction ==
    IF result.notes = "" THEN product.rate[1].value ELSE product.text_percent \div 100

\* The payment is the annuity payment for the monthly rate r/12 over 360 months.
IsAnnuity(payment, principal, r) ==
    /\ payment.amount = principal
    /\ payment.n = 360
    /\ payment.rate_num * 12 = r * payment.rate_den

\* C28 (as claimed). For a selected annual rate r > 0 (as a fraction) and
\* reference principal P, the computed monthly payment is the annuity payment
\* with monthly rate r/12 and n fixed at 360.
C28_AmortizationIdentity ==
    result.fn \in {"calculate_all_repayments", "calculate_monthly_repayment"} =>
      \A principal \in DOMAIN result.out :
        result.out[principal] # NoPayment =>
          IsAnnuity(result.out[principal], principal, AnnualFraction)

\* calculate_monthly_repayment of the enhanced real-time scraper does compute
\* the annuity payment of the claim.
EnhancedAmortizationIdentity ==
    result.fn = "calculate_monthly_repayment" =>
      \A principal \in DOMAIN result.out :
        result.out[principal] # NoPayment =>
          IsAnnuity(result.out[principal], principal, AnnualFraction)

\* C29 (as claimed). For a lending rate that carries N tiers (N >= 1) a record
\* is created for each tier, so all N tiers of that rate appear in the output.
C29_RecordForEachTier ==
    result.fn \in TierRecorders =>
      \A i \in DOMAIN product.rate :
        product.rate[i].value # BadValue =>
          \A t \in DOMAIN product.rate[i].tiers :
            \E k \in DOMAIN result.out :
              result.out[k].tier_name = product.rate[i].tiers[t]

\* The first tier of every accepted rate does appear.
FirstTierRecorded ==
    result.fn \in TierRecorders =>
      \A i \in DOMAIN product.rate :
        (product.rate[i].value # BadValue /\ product.rate[i].tiers # <<>>) =>
          \E k \in DOMAIN result.out :
            result.out[k].tier_name = product.rate[i].tiers[1]

\* Every listing attempt of the bank was answered 200 with no product of the
\* scraper's category.
ListingInScopeEmpty(b) ==
    /\ attempts[b] # <<>>
    /\ \A i \in DOMAIN attempts[b] : attempts[b][i][2] = "no_mortgage"

\* C30 (as claimed). A source whose listing request returns 200 but contains
\* no in-scope products is reported as a successful source with zero records:
\* it is not counted as failed and not left out of the counts.
C30_EmptyListingIsSuccess ==
    \A b \in banks_to_process :
      (ListingInScopeEmpty(b) /\ main_pc = "done") =>
        /\ ~Failed(b)
        /\ error_count = 0
        /\ success_count = 1
        /\ RecordsOf(rate_records, b) = <<>>

====
